---------------------------- MODULE Spec2Model ----------------------------
(***************************************************************************)
(* Model of cosmoprimo's parameter core (cosmoprimo/cosmology.py):         *)
(* check_params, find_conflicts, merge_params, compile_params,             *)
(* Cosmology.__init__, Cosmology.clone and BaseEngine.get.                 *)
(*                                                                         *)
(* Numbers are fixed-point integers.  Units:                               *)
(*   dimensionless reals (h, H0, Omega_b, N_ur, N_eff, T_ncdm, ...) 1e-4   *)
(*   temperatures in Kelvin (T_cmb)                                 1e-4   *)
(*   neutrino masses in eV (m_ncdm)                                 1e-5   *)
(*   neutrino density fractions (Omega_ncdm, omega_ncdm)            1e-7   *)
(*   radiation density fractions (Omega_g, Omega_ur, ...)           1e-8   *)
(*   redshifts (z_pk)                                               1      *)
(* A Python value is a record [k, n, l, s]: k is its kind ("num", "list",  *)
(* "array" for numpy.ndarray, "none", "str", "bool"), n its number, l its  *)
(* items, s its string.  A dict is a function from a set of names.         *)
(***************************************************************************)
EXTENDS Integers, Sequences, FiniteSets, TLC

VARIABLES cosmos, last

vars == <<cosmos, last>>

----------------------------------------------------------------------------
(* Python values *)

Num(x) == [k |-> "num", n |-> x, l |-> <<>>, s |-> ""]
Lst(q) == [k |-> "list", n |-> 0, l |-> q, s |-> ""]
Arr(q) == [k |-> "array", n |-> 0, l |-> q, s |-> ""]
Str(t) == [k |-> "str", n |-> 0, l |-> <<>>, s |-> t]
Bool(b) == [k |-> "bool", n |-> IF b THEN 1 ELSE 0, l |-> <<>>, s |-> ""]
NoneV == [k |-> "none", n |-> 0, l |-> <<>>, s |-> ""]

EmptyDict == [x \in {} |-> NoneV]

Has(d, name) == name \in DOMAIN d

\* dict.pop(name): the dict without name
Pop(d, name) == [x \in (DOMAIN d) \ {name} |-> d[x]]

\* d[name] = v
Put(d, name, v) == [x \in (DOMAIN d) \cup {name} |-> IF x = name THEN v ELSE d[x]]

\* d.update(e)
Update(d, e) == [x \in (DOMAIN d) \cup (DOMAIN e) |-> IF x \in DOMAIN e THEN e[x] ELSE d[x]]

\* np.ndim(v) == 0
IsScalar(v) == v.k \notin {"list", "array"}

Abs(x) == IF x < 0 THEN -x ELSE x

RECURSIVE SeqSum(_)
SeqSum(q) == IF q = <<>> THEN 0 ELSE Head(q) + SeqSum(Tail(q))

SeqSet(q) == {q[i] : i \in 1..Len(q)}

----------------------------------------------------------------------------
(* find_conflicts, check_params, merge_params *)

\* the groups of parameter names that conflict with each other
conflicts ==
    { {"h", "H0"},
      {"T_cmb", "Omega_g", "omega_g", "Omega0_g"},
      {"Omega_b", "omega_b", "Omega0_b"},
      {"N_ur", "Omega_ur", "omega_ur", "Omega0_ur", "N_eff"},
      {"Omega_cdm", "omega_cdm", "Omega0_cdm", "Omega_c", "omega_c"},
      {"m_ncdm", "Omega_ncdm", "omega_ncdm", "Omega0_ncdm"},
      {"A_s", "ln10^{10}A_s", "sigma8"},
      {"tau_reio", "z_reio"} }

\* find_conflicts(name): the group holding name (name included), () if none
find_conflicts(name) == UNION {conf \in conflicts : name \in conf}

\* check_params: conf[name] for every name of args
check_conf(args) ==
    [name \in DOMAIN args |-> {eq \in find_conflicts(name) : eq # name /\ eq \in DOMAIN args}]

\* check_params that leaves the name itself out of the list it raises with
check_params_others(args) ==
    {check_conf(args)[name] : name \in {x \in DOMAIN args : check_conf(args)[x] # {}}}

\* the name lists check_params can raise with: [name] + conf[name] of a name
\* whose conf[name] is not empty (which one is first depends on the order of
\* the caller's keywords); empty when check_params returns
check_params(args) ==
    {{name} \cup check_conf(args)[name] : name \in {x \in DOMAIN args : check_conf(args)[x] # {}}}

\* merge_params that pops only the names moreargs holds itself
merge_popped_same(args, moreargs) == (DOMAIN args) \cap (DOMAIN moreargs)

\* merge_params: the names of args that are popped
merge_popped(args, moreargs) ==
    {eq \in DOMAIN args : \E name \in DOMAIN moreargs : eq \in find_conflicts(name)}

merge_params(args, moreargs) ==
    LET kept == [x \in (DOMAIN args) \ merge_popped(args, moreargs) |-> args[x]]
    IN  Update(kept, moreargs)

----------------------------------------------------------------------------
(* fixed-point arithmetic *)

\* a/b rounded to the nearest unit (float division on the grid), b # 0
RDiv(a, b) ==
    LET x == IF b < 0 THEN -a ELSE a
        y == Abs(b)
    IN  (x + y \div 2) \div y

\* floor of the square root of x >= 0, by bisection on lo..hi
RECURSIVE SqrtBetween(_, _, _)
SqrtBetween(x, lo, hi) ==
    IF lo >= hi THEN lo
    ELSE LET mid == (lo + hi + 1) \div 2
         IN  IF mid * mid <= x THEN SqrtBetween(x, mid, hi) ELSE SqrtBetween(x, lo, mid - 1)

\* np.sqrt on the grid (x >= 0; 46340^2 is the largest square below 2^31)
ISqrt(x) == SqrtBetween(x, 0, 46340)

\* x*y of two reals in units of 1e-4
Mul4(x, y) == RDiv(x * y, 10^4)

\* h**2 in units of 1e-4
Square(h) == Mul4(h, h)

\* np.exp(x), x and the result in units of 1e-4: the series sum x^k/k!
RECURSIVE ExpTerms(_, _, _)
ExpTerms(x, term, k) ==
    IF term = 0 THEN 0 ELSE term + ExpTerms(x, RDiv(term * x, k * 10^4), k + 1)

Exp4(x) == ExpTerms(x, 10^4, 1)

----------------------------------------------------------------------------
(* compile_params, lines 723-763: names *)

\* the names beginning with 'omega' and name.replace('omega','Omega')
\* (and 'O' + name[1:] in BaseEngine.get)
Capital ==
    [ omega_g |-> "Omega_g", omega_b |-> "Omega_b", omega_ur |-> "Omega_ur",
      omega_cdm |-> "Omega_cdm", omega_c |-> "Omega_c", omega_ncdm |-> "Omega_ncdm",
      omega_m |-> "Omega_m", omega_k |-> "Omega_k", omega_r |-> "Omega_r",
      omega_x |-> "Omega_x" ]

startswith_omega(name) == name \in DOMAIN Capital

\* omega/h**2 of a scalar or of a list; None and strings are a TypeError
DivH2(v, h) ==
    IF v.k = "num" THEN Num(RDiv(v.n * 10^4, Square(h)))
    ELSE Lst([i \in 1..Len(v.l) |-> RDiv(v.l[i] * 10^4, Square(h))])

\* a compilation in progress: st is "ok", the exception raised, or "hang" for
\* a loop that never ends; p is params, m and T are the locals m_ncdm and
\* T_ncdm, single is single_ncdm, zmut tells that the list object args holds
\* under 'z_pk' was appended to, it counts the runs of the body of the two
\* solve_newton loops
Raise(c, exc) == [c EXCEPT !.st = exc]

\* lines 723-729: the copy, H0 -> h, h = params['h']
compile_h(args) ==
    LET p == IF Has(args, "H0")
             THEN Put(Pop(args, "H0"), "h",
                      IF args["H0"].k = "num" THEN Num(RDiv(args["H0"].n, 100)) ELSE NoneV)
             ELSE args
        c == [st |-> "ok", p |-> p, m |-> NoneV, T |-> NoneV, single |-> FALSE, zmut |-> FALSE,
              it |-> 0]
    IN  IF Has(args, "H0") /\ args["H0"].k # "num" THEN Raise(c, "TypeError")
        ELSE IF ~Has(p, "h") THEN Raise(c, "KeyError")
        ELSE IF p["h"].k # "num" \/ p["h"].n = 0 THEN Raise(c, "TypeError")
        ELSE c

\* lines 730-737: every omega_X of args becomes Omega_X = omega_X/h**2
compile_omega(args, c) ==
    IF c.st # "ok" THEN c
    ELSE LET om == {name \in DOMAIN args : startswith_omega(name)}
             h == c.p["h"].n
             kept == [x \in (DOMAIN c.p) \ om |-> c.p[x]]
             conv == [X \in {Capital[name] : name \in om} |->
                        DivH2(args[CHOOSE name \in om : Capital[name] = X], h)]
         IN  IF \E name \in om : args[name].k \notin {"num", "list"}
             THEN Raise(c, "TypeError")
             ELSE [c EXCEPT !.p = Update(kept, conv)]

\* lines 744-757: the calls set_alias(params_name, args_name), in order
Aliases ==
    << <<"T_cmb", "T0_cmb">>, <<"Omega_m", "Omega0_m">>, <<"Omega_cdm", "Omega0_cdm">>,
       <<"Omega_cdm", "Omega_c">>, <<"Omega_ncdm", "Omega0_ncdm">>, <<"Omega_b", "Omega0_b">>,
       <<"Omega_k", "Omega0_k">>, <<"Omega_ur", "Omega0_ur">>, <<"Omega_Lambda", "Omega_lambda">>,
       <<"Omega_Lambda", "Omega0_lambda">>, <<"Omega_Lambda", "Omega0_Lambda">>,
       <<"Omega_fld", "Omega0_fld">>, <<"Omega_ncdm", "Omega0_ncdm">>, <<"Omega_g", "Omega0_g">> >>

\* lines 739-742: params[params_name] = params.pop(args_name) if args_name in args
set_alias(args, c, params_name, args_name) ==
    IF c.st # "ok" \/ ~Has(args, args_name) THEN c
    ELSE IF ~Has(c.p, args_name) THEN Raise(c, "KeyError")
    ELSE [c EXCEPT !.p = Put(Pop(c.p, args_name), params_name, c.p[args_name])]

RECURSIVE set_aliases(_, _, _)
set_aliases(args, c, i) ==
    IF i > Len(Aliases) THEN c
    ELSE set_aliases(args, set_alias(args, c, Aliases[i][1], Aliases[i][2]), i + 1)

compile_alias(args, c) == set_aliases(args, c, 1)

\* lines 759-760: A_s = exp(ln10^{10}A_s)*1e-10, A_s in units of 1e-14
compile_A_s(c) ==
    IF c.st # "ok" \/ ~Has(c.p, "ln10^{10}A_s") THEN c
    ELSE IF c.p["ln10^{10}A_s"].k # "num" THEN Raise(c, "TypeError")
    ELSE [c EXCEPT !.p = Put(Pop(c.p, "ln10^{10}A_s"), "A_s", Num(Exp4(c.p["ln10^{10}A_s"].n)))]

\* constants.rho_crit_kgph_per_mph3/(4/c**3*Stefan_Boltzmann) is 2.2315e6 K^4:
\* T**4 in units of 1e-6 K^4 is 22315 times omega_g in units of 1e-8
T4_of_omega_g(og) == og * 22315

\* line 763: T_cmb = (Omega_g*h**2*rho_crit/(4/c^3*sigma))**0.25, in units of 1e-4 K
T_cmb_of_Omega_g(Omega_g, h) ==
    LET og == Mul4(Omega_g, Square(h))
    IN  ISqrt(ISqrt(RDiv(T4_of_omega_g(og), 100)) * 10^6)

\* lines 762-763
compile_T_cmb(c) ==
    IF c.st # "ok" \/ ~Has(c.p, "Omega_g") THEN c
    ELSE IF c.p["Omega_g"].k # "num" \/ c.p["Omega_g"].n < 0 THEN Raise(c, "TypeError")
    ELSE [c EXCEPT !.p = Put(Pop(c.p, "Omega_g"), "T_cmb",
                             Num(T_cmb_of_Omega_g(c.p["Omega_g"].n, c.p["h"].n)))]

----------------------------------------------------------------------------
(* _compute_ncdm_momenta, lines 23-70 *)

\* The integral over q of the phase-space integrand is taken by the one-node
\* rule that is exact for m = 0 and for m -> infinity (node q0 = 3.15137, the
\* ratio of the q^3 and q^2 moments of 1/(1 + exp(q))), so that
\*   rho(T_eff, m)/rho_crit = orel(T_eff) * sqrt(1 + (m*over_T/q0)**2).

\* T_eff**4 in units of 1e-6 K^4
T_eff4(T_eff) == LET T2 == RDiv(Mul4(T_eff, T_eff), 10) IN T2 * T2

\* the density of a massless species, 7/8 * 4/c**3 * Stefan_Boltzmann * T_eff**4
\* over rho_crit, in units of 1e-7 (7/8 / 2.2315e6 K^4 = 1/255030 per 1e-6 K^4)
rho_massless(T_eff) == RDiv(T_eff4(T_eff), 255030)

\* orel * over_T/q0 per eV, in units of 1e-4 (1/93.14 at T_eff = 1.9518 K)
rho_per_mass(T_eff) == RDiv(Mul4(Mul4(T_eff, T_eff), T_eff) * 1444, 10^4)

\* orel * m*over_T/q0 in units of 1e-7, m in units of 1e-5 eV
rho_massive(T_eff, m) == RDiv(m * rho_per_mass(T_eff), 10^4)

\* out = 'rho', over constants.rho_crit_Msunph_per_Mpcph3, in units of 1e-7
ncdm_rho(T_eff, m) ==
    ISqrt(rho_massless(T_eff) * rho_massless(T_eff) + rho_massive(T_eff, m) * rho_massive(T_eff, m))

\* out = 'drhodm', in units of 1e-4 (density units per mass unit)
ncdm_drhodm(T_eff, m) == RDiv(rho_massive(T_eff, m) * rho_per_mass(T_eff), ncdm_rho(T_eff, m))

\* out = 'p': 3 p = orel**2/rho, in units of 1e-7
ncdm_3p(T_eff, m) == RDiv(rho_massless(T_eff) * rho_massless(T_eff), ncdm_rho(T_eff, m))

----------------------------------------------------------------------------
(* compile_params, lines 765-828: the neutrino masses *)

\* the loop tolerance 1e-15 of both solve_newton, on the grid
NewtonTol == 2

\* lines 788-798: solve_newton(omega_ncdm, m, T_eff).  The loop has no bound:
\* it never ends once m takes a value it took before.  it is the number of
\* times the body of the loop ran.
RECURSIVE newton_density(_, _, _, _)
newton_density(omega_ncdm, m, T_eff, seen) ==
    LET omega_check == ncdm_rho(T_eff, m)
        domegadm == ncdm_drhodm(T_eff, m)
    IN  IF Abs(omega_ncdm - omega_check) <= NewtonTol
        THEN [st |-> "ok", m |-> m, it |-> Cardinality(seen)]
        ELSE IF domegadm = 0 THEN [st |-> "ZeroDivisionError", m |-> m, it |-> Cardinality(seen)]
        ELSE IF m \in seen THEN [st |-> "hang", m |-> m, it |-> Cardinality(seen)]
        ELSE newton_density(omega_ncdm, m + RDiv((omega_ncdm - omega_check) * 10^4, domegadm),
                            T_eff, seen \cup {m})

\* lines 800-807: the mass of one species of density Omega
mass_of_Omega(Omega, h, T_eff) ==
    IF Omega = 0 THEN [st |-> "ok", m |-> 0, it |-> 0]
    ELSE LET omega == Mul4(Omega, Square(h))
         IN  newton_density(omega, RDiv(omega * 9314, 10^4), T_eff, {})

\* zip(Omega_ncdm, T_ncdm), one solve_newton per pair
RECURSIVE masses_of_Omega(_, _, _, _)
masses_of_Omega(Omegas, Ts, h, T_cmb) ==
    IF Omegas = <<>> \/ Ts = <<>> THEN [st |-> "ok", l |-> <<>>, it |-> 0]
    ELSE LET one == mass_of_Omega(Head(Omegas), h, Mul4(T_cmb, Head(Ts)))
             rest == masses_of_Omega(Tail(Omegas), Tail(Ts), h, T_cmb)
         IN  IF one.st # "ok" THEN [st |-> one.st, l |-> <<>>, it |-> one.it]
             ELSE IF rest.st # "ok" THEN [rest EXCEPT !.it = one.it + rest.it]
             ELSE [st |-> "ok", l |-> <<one.m>> \o rest.l, it |-> one.it + rest.it]

\* [x]*n
Repeat(x, n) == [i \in 1..n |-> x]

\* constants.TNCDM (the default T_ncdm) and constants.NEFF, in units of 1e-4
TNCDM == 7161
NEFF == 30440
TCMB == 27255

\* lines 770-815
compile_ncdm(c) ==
    IF c.st # "ok" THEN c
    ELSE LET T == IF Has(c.p, "T_ncdm") THEN c.p["T_ncdm"] ELSE Num(TNCDM)
         IN  IF Has(c.p, "m_ncdm")
             THEN LET m == c.p["m_ncdm"]
                  IN  [c EXCEPT !.p = Pop(c.p, "m_ncdm"), !.T = T,
                                !.m = IF m.k = "none" THEN Lst(<<>>) ELSE m]
             ELSE IF Has(c.p, "Omega_ncdm")
             THEN LET O == c.p["Omega_ncdm"]
                      single == IsScalar(O)
                      Ol == IF single THEN <<O.n>> ELSE O.l
                      Tl == IF IsScalar(T) THEN Repeat(T.n, Len(Ol)) ELSE T.l
                      r == masses_of_Omega(Ol, Tl, c.p["h"].n, c.p["T_cmb"].n)
                      c1 == [c EXCEPT !.p = Pop(c.p, "Omega_ncdm"), !.T = Lst(Tl), !.it = r.it]
                  IN  IF O.k \notin {"num", "list", "array"} \/ T.k \notin {"num", "list", "array"}
                      THEN Raise(c1, "TypeError")
                      ELSE IF ~Has(c.p, "T_cmb") THEN Raise(c1, "KeyError")
                      ELSE IF r.st # "ok" THEN Raise(c1, r.st)
                      ELSE IF single /\ r.l = <<>> THEN Raise(c1, "IndexError")
                      ELSE [c1 EXCEPT !.m = IF single THEN Num(r.l[1]) ELSE Lst(r.l)]
             ELSE [c EXCEPT !.T = T, !.m = Lst(<<>>)]

\* lines 817-828
compile_lists(c) ==
    IF c.st # "ok" THEN c
    ELSE LET single == IsScalar(c.m)
             m == IF single THEN <<c.m.n>> ELSE c.m.l
             T == IF IsScalar(c.T) THEN Repeat(c.T.n, Len(m)) ELSE c.T.l
             c1 == [c EXCEPT !.single = single, !.m = Lst(m), !.T = Lst(T)]
         IN  IF c.m.k \notin {"num", "list", "array"} \/ c.T.k \notin {"num", "list", "array"}
             THEN Raise(c1, "TypeError")
             ELSE IF Len(T) # Len(m) THEN Raise(c1, "TypeError")
             ELSE c1

----------------------------------------------------------------------------
(* compile_params, lines 830-879: the hierarchy *)

\* float('nan') among the masses
NaN == -(2^30)

\* np.sqrt: nan (with a warning) below zero
np_sqrt(x) == IF x < 0 THEN NaN ELSE ISqrt(x)

HasNaN(q) == \E i \in 1..Len(q) : q[i] = NaN

\* Lesgourgues & Pastor 2012, in units of 1e-10 eV^2
deltam21sq == 762000
deltam31sq_normal == 25500000
deltam31sq_inverted == -24300000

\* lines 844-855: solve_newton(sum_ncdm, m_ncdm, deltam21sq, deltam31sq).
\* A nan sum_check ends the loop (nan > 1e-15 is False); the loop has no
\* bound and never ends once m_ncdm[0] takes a value it took before.
RECURSIVE newton_hierarchy(_, _, _, _, _)
newton_hierarchy(sum_ncdm, m, d21, d31, seen) ==
    LET sum_check == m[1] + m[2] + m[3]
        dsdm1 == 10^4 + RDiv(m[1] * 10^4, m[2]) + RDiv(m[1] * 10^4, m[3])
        m1 == m[1] + RDiv((sum_ncdm - sum_check) * 10^4, dsdm1)
    IN  IF HasNaN(m) THEN [st |-> "ok", l |-> m, it |-> Cardinality(seen)]
        ELSE IF Abs(sum_ncdm - sum_check) <= NewtonTol THEN [st |-> "ok", l |-> m, it |-> Cardinality(seen)]
        ELSE IF m[2] = 0 \/ m[3] = 0
        THEN IF m[1] = 0 THEN [st |-> "ok", l |-> <<NaN, NaN, NaN>>, it |-> Cardinality(seen) + 1]
             ELSE [st |-> "hang", l |-> m, it |-> Cardinality(seen)]
        ELSE IF dsdm1 = 0 THEN [st |-> "ok", l |-> <<NaN, NaN, NaN>>, it |-> Cardinality(seen) + 1]
        ELSE IF m[1] \in seen THEN [st |-> "hang", l |-> m, it |-> Cardinality(seen)]
        ELSE newton_hierarchy(sum_ncdm, <<m1, np_sqrt(m1 * m1 + d21), np_sqrt(m1 * m1 + d31)>>,
                              d21, d31, seen \cup {m[1]})

\* lines 857-863
hierarchy_normal(sum_ncdm) ==
    IF sum_ncdm * sum_ncdm < deltam21sq + deltam31sq_normal
    THEN [st |-> "ValueError", l |-> <<>>, it |-> 0]
    ELSE newton_hierarchy(sum_ncdm, <<0, RDiv(deltam21sq, 10^5), RDiv(deltam31sq_normal, 10^5)>>,
                          deltam21sq, deltam31sq_normal, {})

\* lines 865-871
hierarchy_inverted(sum_ncdm) ==
    IF sum_ncdm * sum_ncdm < -deltam31sq_inverted + deltam21sq - deltam31sq_inverted
    THEN [st |-> "ValueError", l |-> <<>>, it |-> 0]
    ELSE newton_hierarchy(sum_ncdm,
                          <<np_sqrt(-deltam31sq_inverted), np_sqrt(-deltam31sq_inverted + deltam21sq), 1>>,
                          deltam21sq, deltam31sq_inverted, {})

\* a split that gives every species the whole sum
hierarchy_degenerate_whole(sum_ncdm) == [st |-> "ok", l |-> Repeat(sum_ncdm, 3), it |-> 0]

\* lines 873-874
hierarchy_degenerate(sum_ncdm) == [st |-> "ok", l |-> Repeat(RDiv(sum_ncdm, 3), 3), it |-> 0]

\* a test that lets a list of one mass through
not_single_ncdm_long(c) == ~c.single /\ Len(c.m.l) # 1

\* line 835: if not single_ncdm
not_single_ncdm(c) == ~c.single

\* lines 830-879
compile_hierarchy(c) ==
    IF c.st # "ok" \/ ~Has(c.p, "neutrino_hierarchy") THEN c
    ELSE LET neutrino_hierarchy == c.p["neutrino_hierarchy"]
             c1 == [c EXCEPT !.p = Pop(c.p, "neutrino_hierarchy")]
             sum_ncdm == c.m.l[1]
             r == IF neutrino_hierarchy.s = "normal" THEN hierarchy_normal(sum_ncdm)
                  ELSE IF neutrino_hierarchy.s = "inverted" THEN hierarchy_inverted(sum_ncdm)
                  ELSE IF neutrino_hierarchy.s = "degenerate" THEN hierarchy_degenerate(sum_ncdm)
                  ELSE [st |-> "CosmologyError", l |-> <<>>, it |-> 0]
         IN  IF neutrino_hierarchy.k = "none" THEN c1
             ELSE IF not_single_ncdm(c) THEN Raise(c1, "CosmologyError")
             ELSE IF sum_ncdm < 0 THEN Raise(c1, "CosmologyError")
             ELSE IF r.st # "ok" THEN Raise([c1 EXCEPT !.it = c.it + r.it], r.st)
             ELSE [c1 EXCEPT !.m = Lst(r.l), !.T = Lst(Repeat(c.T.l[1], 3)), !.it = c.it + r.it]

----------------------------------------------------------------------------
(* compile_params, lines 881-906: N_ur *)

\* Lesgourgues et al. 2012, in units of 1e-5 eV
m_massive == 17

\* a mask that keeps the species at or below the threshold
mask_m_below(m) == {i \in 1..Len(m) : m[i] # NaN /\ m[i] <= m_massive}

\* mask_m = m_ncdm > m_massive (nan > x is False)
mask_m(m) == {i \in 1..Len(m) : m[i] # NaN /\ m[i] > m_massive}

\* T_ncdm**4 * (4./11.)**(-4./3.) of one species, in units of 1e-4
N_of_T(T) == Mul4(Mul4(Mul4(T, T), Mul4(T, T)), 38528)

\* sum(T_ncdm[mask_m]**4) * (4./11.)**(-4./3.)
RECURSIVE N_massive(_, _, _)
N_massive(T, mask, i) ==
    IF i > Len(T) THEN 0
    ELSE (IF i \in mask THEN N_of_T(T[i]) ELSE 0) + N_massive(T, mask, i + 1)

\* m_ncdm[mask_m].tolist()
RECURSIVE Masked(_, _, _)
Masked(m, mask, i) ==
    IF i > Len(m) THEN <<>>
    ELSE (IF i \in mask THEN <<m[i]>> ELSE <<>>) \o Masked(m, mask, i + 1)

\* line 897 without the mask: every species is removed from N_eff
N_ur_all_species(N_eff, m, T) == N_eff - N_massive(T, 1..Len(T), 1)

\* line 897
N_ur_of_N_eff(N_eff, m, T) == N_eff - N_massive(T, mask_m(m), 1)

\* lines 881-906
compile_N_ur(c) ==
    IF c.st # "ok" THEN c
    ELSE LET N_ur == IF Has(c.p, "N_ur") THEN c.p["N_ur"] ELSE NoneV
             N_eff == IF Has(c.p, "N_eff") THEN c.p["N_eff"] ELSE Num(NEFF)
             derived == N_ur_of_N_eff(N_eff.n, c.m.l, c.T.l)
         IN  IF Has(c.p, "Omega_ur") THEN Raise(c, "NameError")
             ELSE IF N_ur.k # "none"
             THEN [c EXCEPT !.p = Update(c.p, [x \in {"N_ur", "m_ncdm", "T_ncdm"} |->
                                    IF x = "N_ur" THEN N_ur ELSE IF x = "m_ncdm" THEN c.m ELSE c.T])]
             ELSE IF N_eff.k # "num" THEN Raise(c, "TypeError")
             ELSE IF derived < 0 THEN Raise([c EXCEPT !.p = Pop(c.p, "N_eff")], "ValueError")
             ELSE [c EXCEPT !.m = Lst(Masked(c.m.l, mask_m(c.m.l), 1)), !.T = Arr(c.T.l),
                            !.p = Update(Pop(c.p, "N_eff"), [x \in {"N_ur", "m_ncdm", "T_ncdm"} |->
                                    IF x = "N_ur" THEN Num(derived)
                                    ELSE IF x = "m_ncdm" THEN Lst(Masked(c.m.l, mask_m(c.m.l), 1))
                                    ELSE Arr(c.T.l)])]

----------------------------------------------------------------------------
(* compile_params, lines 908-924: z_pk, modes, Omega_m *)

\* a list of strings with one item
StrList(t) == [k |-> "strlist", n |-> 0, l |-> <<>>, s |-> t]

\* interpolator.get_default_z_callable()
get_default_z_callable == Lst(<<0, 1, 2>>)

\* lines 908-916 alone: z_pk is made a list and 0 is not appended
compile_z_no_append(c) ==
    IF c.st # "ok" THEN c
    ELSE LET given == IF Has(c.p, "z_pk") THEN c.p["z_pk"] ELSE NoneV
             z0 == IF given.k = "none" THEN get_default_z_callable ELSE given
         IN  [c EXCEPT !.p = Put(c.p, "z_pk", IF IsScalar(z0) THEN Lst(<<z0.n>>) ELSE z0)]

\* lines 908-918.  A list given under 'z_pk' is the caller's own object:
\* params.update(args) copies the reference, and append changes it in place.
compile_z(c) ==
    IF c.st # "ok" THEN c
    ELSE LET given == IF Has(c.p, "z_pk") THEN c.p["z_pk"] ELSE NoneV
             z0 == IF given.k = "none" THEN get_default_z_callable ELSE given
             z == IF IsScalar(z0) THEN Lst(<<z0.n>>) ELSE z0
             modes0 == IF Has(c.p, "modes") /\ c.p["modes"].k # "none" THEN c.p["modes"] ELSE StrList("s")
             modes == IF modes0.k = "str" THEN StrList(modes0.s) ELSE modes0
             c1 == [c EXCEPT !.p = Update(c.p, [x \in {"z_pk", "modes"} |-> IF x = "z_pk" THEN z ELSE modes])]
         IN  IF 0 \in SeqSet(z.l) THEN c1
             ELSE IF z.k # "list" THEN Raise(c1, "AttributeError")
             ELSE [c1 EXCEPT !.p["z_pk"] = Lst(Append(z.l, 0)), !.zmut = (given.k = "list")]

\* BaseEngine._get_rho_ncdm(params) - 3*BaseEngine._get_p_ncdm(params), over rho_crit,
\* lines 170-173 and 192-195: zip(m_ncdm, T_ncdm), in units of 1e-7
RECURSIVE rho_minus_3p(_, _, _)
rho_minus_3p(m, T, T_cmb) ==
    IF m = <<>> \/ T = <<>> THEN 0
    ELSE ncdm_rho(Mul4(T_cmb, Head(T)), Head(m)) - ncdm_3p(Mul4(T_cmb, Head(T)), Head(m))
         + rho_minus_3p(Tail(m), Tail(T), T_cmb)

\* lines 920-922
compile_Omega_m(c) ==
    IF c.st # "ok" \/ ~Has(c.p, "Omega_m") THEN c
    ELSE LET nonrelativistic_ncdm ==
                 IF HasNaN(c.p["m_ncdm"].l) THEN NaN
                 ELSE RDiv(rho_minus_3p(c.p["m_ncdm"].l, c.p["T_ncdm"].l, c.p["T_cmb"].n) * 10^4,
                           Square(c.p["h"].n))
             p1 == Pop(c.p, "Omega_m")
         IN  IF ~Has(c.p, "T_cmb") \/ ~Has(c.p, "Omega_b") THEN Raise([c EXCEPT !.p = p1], "KeyError")
             ELSE IF c.p["Omega_m"].k # "num" \/ c.p["Omega_b"].k # "num"
             THEN Raise([c EXCEPT !.p = p1], "TypeError")
             ELSE [c EXCEPT !.p = Put(p1, "Omega_cdm",
                       Num(IF nonrelativistic_ncdm = NaN THEN NaN
                           ELSE c.p["Omega_m"].n - c.p["Omega_b"].n - RDiv(nonrelativistic_ncdm, 1000)))]

\* compile_params, lines 723-828: names, then the masses and temperatures as lists
compile_masses(args) ==
    compile_lists(compile_ncdm(
        compile_T_cmb(compile_A_s(compile_alias(args, compile_omega(args, compile_h(args)))))))

\* compile_params, lines 723-879: the hierarchy is applied to the masses
compile_neutrinos(args) == compile_hierarchy(compile_masses(args))

\* compile_params(args): st is "ok" and p the dict returned, or st is the
\* exception raised ("hang": the call never returns)
compile_params(args) == compile_Omega_m(compile_z(compile_N_ur(compile_neutrinos(args))))

----------------------------------------------------------------------------
(* BaseEngine.get, lines 101-142 *)

\* T_cmb**4 * 4/c**3 * Stefan_Boltzmann over rho_crit, in units of 1e-8
omega_of_T4(T) == RDiv(T_eff4(T), 22315)

\* line 124: T_cmb * (4./11.)**(1./3.)
T_ur_of(T_cmb) == Mul4(T_cmb, 7138)

\* _get_rho_ncdm(z=0)/rho_crit, lines 170-173, in units of 1e-7
RECURSIVE sum_rho(_, _, _)
sum_rho(m, T, T_cmb) ==
    IF m = <<>> \/ T = <<>> THEN 0
    ELSE ncdm_rho(Mul4(T_cmb, Head(T)), Head(m)) + sum_rho(Tail(m), Tail(T), T_cmb)

get_rho_ncdm(p) ==
    IF HasNaN(p["m_ncdm"].l) THEN NaN
    ELSE RDiv(sum_rho(p["m_ncdm"].l, p["T_ncdm"].l, p["T_cmb"].n) * 10^4, Square(p["h"].n))

RECURSIVE sum_N(_)
sum_N(T) == IF T = <<>> THEN 0 ELSE N_of_T(Head(T)) + sum_N(Tail(T))

\* the outcome of a call: st is "ok" or the exception, v the value returned,
\* p is self._params after the call
Returns(p, v) == [st |-> "ok", v |-> v, p |-> p]
Raises(p, exc) == [st |-> exc, v |-> NoneV, p |-> p]

RECURSIVE get(_, _, _, _)
get(p, name, has_default, default) ==
    IF Has(p, name) THEN Returns(p, p[name])
    ELSE IF startswith_omega(name)
    THEN LET r == get(p, Capital[name], FALSE, NoneV)
         IN  IF r.st # "ok" THEN r
             ELSE IF r.v.k # "num" THEN Raises(r.p, "TypeError")
             ELSE Returns(r.p, Num(IF r.v.n = NaN THEN NaN ELSE Mul4(r.v.n, Square(p["h"].n))))
    ELSE IF name = "H0" THEN Returns(p, Num(p["h"].n * 100))
    ELSE IF name = "ln10^{10}A_s"
    THEN IF Has(p, "As") THEN Returns(p, p["As"]) ELSE Raises(p, "KeyError")
    ELSE IF name = "Omega_g"
    THEN Returns(p, Num(RDiv(omega_of_T4(p["T_cmb"].n) * 10^4, Square(p["h"].n))))
    ELSE IF name = "T_ur" THEN Returns(p, Num(T_ur_of(p["T_cmb"].n)))
    ELSE IF name = "Omega_ur"
    THEN Returns(p, Num(RDiv(Mul4(p["N_ur"].n, RDiv(omega_of_T4(T_ur_of(p["T_cmb"].n)) * 7, 8)) * 10^4,
                             Square(p["h"].n))))
    ELSE IF name = "Omega_r"
    THEN Returns(p, Num(RDiv((omega_of_T4(p["T_cmb"].n)
                              + Mul4(p["N_ur"].n, RDiv(omega_of_T4(T_ur_of(p["T_cmb"].n)) * 7, 8))) * 10^4,
                             Square(p["h"].n))))
    ELSE IF name = "Omega_ncdm"
    THEN LET v == Num(get_rho_ncdm(p)) IN Returns(Put(p, "Omega_ncdm", v), v)
    ELSE IF name = "Omega_m"
    THEN LET b == get(p, "Omega_b", FALSE, NoneV)
             cdm == get(p, "Omega_cdm", FALSE, NoneV)
             ncdm == get(p, "Omega_ncdm", FALSE, NoneV)
         IN  IF b.st # "ok" THEN b
             ELSE IF cdm.st # "ok" THEN cdm
             ELSE IF ncdm.v.n = NaN \/ cdm.v.n = NaN THEN Returns(ncdm.p, Num(NaN))
             ELSE Returns(ncdm.p, Num(b.v.n + cdm.v.n + RDiv(ncdm.v.n, 1000)))
    ELSE IF name = "N_ncdm" THEN Returns(p, Num(Len(p["m_ncdm"].l)))
    ELSE IF name = "N_eff" THEN Returns(p, Num(sum_N(p["T_ncdm"].l) + p["N_ur"].n))
    ELSE IF has_default THEN Returns(p, default)
    ELSE Raises(p, "CosmologyError")

----------------------------------------------------------------------------
(* Cosmology *)

\* lines 477-480 and get_default_parameters(include_conflicts=False), lines 555-566
default_cosmological_parameters ==
    [ h |-> Num(7000), Omega_cdm |-> Num(2500), Omega_b |-> Num(500), Omega_k |-> Num(0),
      sigma8 |-> Num(8000), k_pivot |-> Num(500), n_s |-> Num(9600), alpha_s |-> Num(0),
      r |-> Num(0), T_cmb |-> Num(TCMB), m_ncdm |-> NoneV, neutrino_hierarchy |-> NoneV,
      T_ncdm |-> Num(TNCDM), N_eff |-> Num(NEFF), tau_reio |-> Num(600),
      reionization_width |-> Num(5000), A_L |-> Num(10000), w0_fld |-> Num(-10000),
      wa_fld |-> Num(0), cs2_fld |-> Num(10000) ]

default_calculation_parameters ==
    [ non_linear |-> Str(""), modes |-> Str("s"), lensing |-> Bool(FALSE), z_pk |-> NoneV,
      kmax_pk |-> Num(100000), ellmax_cl |-> Num(2500) ]

get_default_parameters == Update(default_cosmological_parameters, default_calculation_parameters)

\* get_engine, lines 268-291: the engine names it knows ("" is None)
KnownEngines == {"class", "camb", "eisenstein_hu", "eisenstein_hu_nowiggle", "bbks", "astropy", "tabulated"}

----------------------------------------------------------------------------
(* the calls a program makes *)

\* the most names a caller passes in one call
MaxArgs == 2

\* the most Cosmology objects a program builds
MaxCosmos == 2

\* the values a caller passes under each name
ArgValues ==
    [ h |-> {Num(7200)}, H0 |-> {Num(700000)},
      T_cmb |-> {Num(27000)}, Omega_g |-> {Num(5400)}, omega_g |-> {Num(2473)}, Omega0_g |-> {Num(5400)},
      Omega_b |-> {Num(480)}, omega_b |-> {Num(245)}, Omega0_b |-> {Num(480)},
      N_ur |-> {Num(20000), Num(-10000), NoneV}, Omega_ur |-> {Num(3700)}, omega_ur |-> {Num(1800)},
      Omega0_ur |-> {Num(3700)}, N_eff |-> {Num(40000), Num(5000)},
      Omega_cdm |-> {Num(2600)}, omega_cdm |-> {Num(1200)}, Omega0_cdm |-> {Num(2600)},
      Omega_c |-> {Num(2600)}, omega_c |-> {Num(1200)},
      m_ncdm |-> {Num(0), Num(6000), Num(5000), Num(5500), Num(5920), Num(9000), Num(9780),
                  Num(20000), Num(-1000), Lst(<<6000>>), Lst(<<6000, 10>>), Lst(<<-1000, 6000>>)},
      Omega_ncdm |-> {Num(0), Num(50), Num(120), Num(13000), Lst(<<13000, 0>>)}, omega_ncdm |-> {Num(6442)},
      Omega0_ncdm |-> {Num(13000)},
      A_s |-> {Num(210000)}, sigma8 |-> {Num(8100)},
      tau_reio |-> {Num(550)}, z_reio |-> {Num(77000)},
      T0_cmb |-> {Num(27000)}, Omega_m |-> {Num(3100)}, Omega0_m |-> {Num(3100)},
      T_ncdm |-> {Num(7000), Lst(<<7161>>), Lst(<<7161, 7000>>)},
      neutrino_hierarchy |-> {Str("normal"), Str("inverted"), Str("degenerate"), Str("random")},
      z_pk |-> {NoneV, Num(1), Lst(<<1>>), Lst(<<0, 1>>)} ]
    @@ [x \in {"ln10^{10}A_s"} |-> {Num(30440)}]

Single(name, v) == [x \in {name} |-> v]

\* the mappings prev, each extended with name under one of vals
Extend(prev, name, vals) == UNION {{a @@ (name :> v) : a \in prev} : v \in vals}

\* the mappings of at most k of the names, each with one of its values
RECURSIVE ArgsOver(_, _, _)
ArgsOver(values, names, k) ==
    IF k = 0 \/ names = {} THEN {EmptyDict}
    ELSE LET name == CHOOSE x \in names : TRUE
         IN  ArgsOver(values, names \ {name}, k) \cup
             Extend(ArgsOver(values, names \ {name}, k - 1), name, values[name])

ArgsUpTo(values, k) == ArgsOver(values, DOMAIN values, k)

RawArgs == ArgsUpTo(ArgValues, MaxArgs)

\* the engine names a caller passes ("" is None)
EngineArgs == {"", "class", "fast"}

\* the names a program reads
GetNames == {"h", "H0", "m_ncdm", "Omega_ncdm", "omega_ncdm", "Omega_m", "omega_x", "N_eff",
             "ln10^{10}A_s", "Omega_cdm", "nothing"}

NoCall ==
    [ op |-> "none", self |-> 0, args |-> EmptyDict, after |-> EmptyDict, engine |-> "",
      st |-> "ok", names |-> {}, merged |-> EmptyDict, name |-> "", has_default |-> FALSE,
      ret |-> NoneV, out |-> EmptyDict, it |-> 0 ]

\* the caller's mapping after the call: its z_pk list is the object compile_params appended to
After(raw, c) ==
    IF c.zmut /\ Has(raw, "z_pk") THEN [raw EXCEPT !["z_pk"] = Lst(Append(@.l, 0))] ELSE raw

\* lines 511-515 and 590-597: check_params, compile_params(merge_params(...)), set_engine.
\* base is the dict merged into (a fresh copy), engine the engine to set.
\* lines 512-515 and 592-596: keep the compiled mapping c and set the engine
Finish(call, raw, c, engine) ==
    IF c.st # "ok"
    THEN /\ last' = [call EXCEPT !.st = c.st, !.after = After(raw, c), !.it = c.it]
         /\ UNCHANGED cosmos
    ELSE IF engine # "" /\ engine \notin KnownEngines
    THEN /\ last' = [call EXCEPT !.st = "CosmologyError", !.after = After(raw, c), !.it = c.it]
         /\ UNCHANGED cosmos
    ELSE /\ last' = [call EXCEPT !.after = After(raw, c), !.out = c.p, !.it = c.it]
         /\ cosmos' = Append(cosmos, [params |-> c.p, engine |-> engine])

Build(op, self, base, raw, given, engine) ==
    LET call == [NoCall EXCEPT !.op = op, !.self = self, !.args = raw, !.after = raw, !.engine = given]
    IN  IF check_params(raw) # {}
        THEN /\ \E names \in check_params(raw) :
                    last' = [call EXCEPT !.st = "CosmologyError", !.names = names]
             /\ UNCHANGED cosmos
        ELSE Finish([call EXCEPT !.merged = merge_params(base, raw)], raw,
                    compile_params(merge_params(base, raw)), engine)

\* a call that never returns leaves nothing to run
Running == last.st # "hang"

\* Cosmology(engine=engine, **raw), lines 482-515
Construct(S, E) ==
    /\ Running
    /\ Len(cosmos) < MaxCosmos
    /\ \E raw \in S, engine \in E :
           Build("init", 0, get_default_parameters, raw, engine, engine)

\* cosmos[i].clone(engine=engine, **raw), lines 569-597
Clone(S, E) ==
    /\ Running
    /\ Len(cosmos) < MaxCosmos
    /\ \E i \in 1..Len(cosmos), raw \in S, engine \in E :
           Build("clone", i, cosmos[i].params, raw, engine,
                 IF engine = "" THEN cosmos[i].engine ELSE engine)

\* cosmos[i].get(name) and cosmos[i].get(name, default), lines 101-142
Get(N) ==
    /\ Running
    /\ \E i \in 1..Len(cosmos), name \in N, has_default \in BOOLEAN :
           LET r == get(cosmos[i].params, name, has_default, Num(-1))
           IN  /\ cosmos' = [cosmos EXCEPT ![i].params = r.p]
               /\ last' = [NoCall EXCEPT !.op = "get", !.self = i, !.name = name,
                                         !.has_default = has_default, !.st = r.st, !.ret = r.v]

\* the calls of a program's life
\* names of two conflict groups, passed together
ConflictValues ==
    [ h |-> {Num(7200)}, H0 |-> {Num(700000)}, A_s |-> {Num(210000)}, sigma8 |-> {Num(8100)} ]

ConflictArgs == ArgsUpTo(ConflictValues, 2 * MaxArgs)

\* the values a program passes when it clones Cosmology()
CloneValues ==
    [ h |-> {Num(7200)}, H0 |-> {Num(700000)}, m_ncdm |-> {Num(6000), Lst(<<6000, 10>>)},
      T_ncdm |-> {Lst(<<7161>>)}, N_ur |-> {Num(20000)}, N_eff |-> {Num(40000)},
      Omega_ncdm |-> {Num(13000)}, z_pk |-> {Lst(<<1>>)},
      neutrino_hierarchy |-> {Str("degenerate")} ]

CloneArgs == ArgsUpTo(CloneValues, MaxArgs)

\* the values a program passes during its life
LifeValues ==
    [ h |-> {Num(7200)}, H0 |-> {Num(700000)}, m_ncdm |-> {Num(6000)} ]

LifeArgs == ArgsUpTo(LifeValues, 1)

Init ==
    /\ cosmos = <<>>
    /\ last = NoCall

\* the names a program reads during its life
LifeNames == {"H0", "Omega_ncdm", "nothing"}

Next == Construct(LifeArgs, EngineArgs) \/ Clone(LifeArgs, {""}) \/ Get(LifeNames)

Spec == Init /\ [][Next]_vars

\* the values a program passes together with an engine name
EngineValues == [ h |-> {Num(7200)}, z_pk |-> {Num(1), Lst(<<1>>), Lst(<<0, 1>>)} ]

EngineCallArgs == ArgsUpTo(EngineValues, 1)

\* one call, with any arguments, made by a program that holds Cosmology()
InitCall ==
    /\ cosmos = << [params |-> compile_params(get_default_parameters).p, engine |-> ""] >>
    /\ last = NoCall

NextCall ==
    /\ last.op = "none"
    /\ \/ Construct(RawArgs \cup ConflictArgs, {""})
       \/ Construct(EngineCallArgs, EngineArgs \ {""})
       \/ Clone(CloneArgs \cup ConflictArgs, {""})
       \/ Clone(EngineCallArgs, EngineArgs \ {""})
       \/ Get(GetNames)

SpecCall == InitCall /\ [][NextCall]_vars

----------------------------------------------------------------------------
(* properties *)

\* the last call was Cosmology(**args) or clone(**args)
Called == last.op \in {"init", "clone"}

\* the last call returned a Cosmology whose mapping is last.out
Returned == Called /\ last.st = "ok"

\* the conflict groups of which args holds two or more names
Groups(args) == {conf \in conflicts : Cardinality(conf \cap DOMAIN args) >= 2}

\* the last call failed in check_params
ConflictError == last.st = "CosmologyError" /\ last.names # {}

\* C1 (as amended): constructing or cloning with a mapping is rejected by
\* check_params if and only if the mapping holds two or more names of one
\* conflict group, and the error then names the supplied names of one such
\* group, all of them and nothing else.
C1_ConflictNamesOneGroup ==
    Called =>
        /\ ConflictError <=> Groups(last.args) # {}
        /\ ConflictError => \E conf \in Groups(last.args) : last.names = conf \cap DOMAIN last.args

\* C1 reached: h and H0 passed together, and the error names both
C1_Witness ==
    /\ Called
    /\ DOMAIN last.args = {"h", "H0"}
    /\ ConflictError
    /\ last.names = {"h", "H0"}

\* C1 (as stated): constructing or cloning is rejected with a conflict error
\* if and only if the mapping holds two or more names of one conflict group,
\* and the error names the conflicting names, every one of them.
C1_ConflictNamesAll ==
    Called =>
        /\ ConflictError <=> Groups(last.args) # {}
        /\ ConflictError => last.names = UNION {conf \cap DOMAIN last.args : conf \in Groups(last.args)}

\* the mapping the last call merged its arguments into
Base == IF last.op = "clone" THEN cosmos[last.self].params ELSE get_default_parameters

\* C2: merge_params(base, override) holds every name of override with
\* override's value and no other name of base that is in the conflict group of
\* a name of override; a clone with h = 0.72 of a cosmology whose h is 0.7
\* (built with H0 = 70) has h = 0.72 and no H0.
C2_MergeOverrides ==
    (Called /\ ~ConflictError) =>
        /\ \A name \in DOMAIN last.args :
              Has(last.merged, name) /\ last.merged[name] = last.args[name]
        /\ \A eq \in DOMAIN Base :
              (eq \notin DOMAIN last.args /\ \E name \in DOMAIN last.args : eq \in find_conflicts(name))
                  => ~Has(last.merged, eq)
        /\ \A eq \in DOMAIN Base :
              (\A name \in DOMAIN last.args : eq \notin find_conflicts(name) /\ eq # name)
                  => Has(last.merged, eq) /\ last.merged[eq] = Base[eq]
        /\ (Returned /\ Has(last.args, "h")) =>
              last.out["h"] = last.args["h"] /\ ~Has(last.out, "H0")

\* C2 reached: a cosmology with h = 0.7 cloned with h = 0.72
C2_Witness ==
    /\ last.op = "clone"
    /\ last.st = "ok"
    /\ last.args = Single("h", Num(7200))
    /\ cosmos[last.self].params["h"] = Num(7000)
    /\ last.out["h"] = Num(7200)
    /\ ~Has(last.out, "H0")

\* the canonical name of each alias of the claim
Canonical ==
    [ H0 |-> "h", omega_b |-> "Omega_b", Omega0_b |-> "Omega_b",
      omega_cdm |-> "Omega_cdm", Omega0_cdm |-> "Omega_cdm", Omega_c |-> "Omega_cdm",
      omega_c |-> "Omega_cdm", Omega_ncdm |-> "m_ncdm", omega_ncdm |-> "m_ncdm",
      Omega0_ncdm |-> "m_ncdm", Omega_g |-> "T_cmb", omega_g |-> "T_cmb", Omega0_g |-> "T_cmb",
      T0_cmb |-> "T_cmb" ]

\* C3: for every alias supplied alone, the mapping compile_params returns
\* holds the quantity under its canonical name and no longer holds the alias.
C3_AliasesNormalised ==
    \A alias \in DOMAIN Canonical :
        (last.op = "init" /\ DOMAIN last.args = {alias}) =>
            /\ last.st = "ok"
            /\ Has(last.out, Canonical[alias])
            /\ ~Has(last.out, alias)

\* C4: the parameter mapping of every Cosmology holds at most one name of each
\* conflict group, after construction, after reads through get and after clone.
C4_OneNamePerGroup ==
    \A i \in 1..Len(cosmos) : Groups(cosmos[i].params) = {}

\* C5: in every mapping compile_params returns, T_ncdm is as long as m_ncdm.
C5_SameLength ==
    Returned => Len(last.out["T_ncdm"].l) = Len(last.out["m_ncdm"].l)

\* C6: every mapping compile_params returns has N_ur >= 0.
C6_N_urNotNegative ==
    Returned => last.out["N_ur"].k = "num" /\ last.out["N_ur"].n >= 0

\* C7: every mass of m_ncdm in a mapping compile_params returns is >= 0.
C7_MassesNotNegative ==
    Returned => \A i \in 1..Len(last.out["m_ncdm"].l) : last.out["m_ncdm"].l[i] >= 0

\* C8: whenever compile_params returns, z_pk is a list that holds redshift 0.
C8_z_pkHoldsZero ==
    Returned => last.out["z_pk"].k = "list" /\ 0 \in SeqSet(last.out["z_pk"].l)

\* C8 reached: the list [1] is given and [1, 0] is returned
C8_Witness ==
    /\ Returned
    /\ Has(last.args, "z_pk")
    /\ last.args["z_pk"] = Lst(<<1>>)
    /\ last.out["z_pk"] = Lst(<<1, 0>>)

\* masses and temperatures as compile_params holds them at line 881
Pre == compile_neutrinos(last.merged)

\* no N_ur reaches line 888
Derives == ~Has(Pre.p, "Omega_ur") /\ (Has(Pre.p, "N_ur") => Pre.p["N_ur"].k = "none")

\* the species of m heavier than the threshold, in order
RECURSIVE Heavier(_)
Heavier(m) ==
    IF m = <<>> THEN <<>>
    ELSE (IF Head(m) > m_massive THEN <<Head(m)>> ELSE <<>>) \o Heavier(Tail(m))

\* T_i^4 (4/11)^(-4/3) summed over the species heavier than the threshold
Subtracted(m, T) ==
    SeqSum([i \in 1..Len(m) |-> IF m[i] > m_massive THEN N_of_T(T[i]) ELSE 0])

\* C9: when N_ur is not supplied, N_ur is N_eff minus the sum of
\* T_i^4 (4/11)^(-4/3) over the species heavier than 0.00017 eV alone, and
\* m_ncdm holds exactly those species.
C9_N_urDerived ==
    (Returned /\ Derives) =>
        /\ last.out["m_ncdm"].l = Heavier(Pre.m.l)
        /\ last.out["N_ur"].n =
              (IF Has(Pre.p, "N_eff") THEN Pre.p["N_eff"].n ELSE NEFF) - Subtracted(Pre.m.l, Pre.T.l)

\* C9 reached: of the masses [0.06, 0.0001] the second is removed and
\* subtracts nothing
C9_Witness ==
    /\ Returned
    /\ last.args = Single("m_ncdm", Lst(<<6000, 10>>))
    /\ Derives
    /\ last.out["m_ncdm"].l = <<6000>>
    /\ last.out["N_ur"].n = NEFF - N_of_T(TNCDM)

\* Cosmology(m_ncdm=0.06): N_eff = 3.044, the default temperature ratio, no N_ur
OneSpecies == last.op = "init" /\ last.args = Single("m_ncdm", Num(6000))

\* C10 (as amended): with N_eff = 3.044 and one species of 0.06 eV the derived
\* N_ur is 3.044 minus the term T^4 (4/11)^(-4/3) of that species, about 2.031:
\* the species above the threshold are the ones that subtract.
C10_N_urOneSpeciesSubtracts ==
    OneSpecies =>
        /\ last.st = "ok"
        /\ last.out["m_ncdm"].l = <<6000>>
        /\ last.out["N_ur"].n = NEFF - N_of_T(TNCDM)
        /\ Abs(last.out["N_ur"].n - 20308) <= 5

\* C10 reached
C10_Witness == OneSpecies /\ last.st = "ok" /\ last.out["N_ur"].n < NEFF

\* C10 (as stated): with N_eff = 3.044 and one species of 0.06 eV the derived
\* N_ur is approximately 3.044, the species contributing no subtraction term.
C10_N_urAbout3044 ==
    OneSpecies => last.st = "ok" /\ Abs(last.out["N_ur"].n - NEFF) <= 100

\* the last call passed value under name and nothing else
Only(name) == Called /\ DOMAIN last.args = {name}

\* the N_ur of a density fraction Omega_ur (units of 1e-8): Omega_ur h^2 over
\* the density 7/8 (4/11)^(4/3) omega_g(T_cmb) of one species
N_ur_of_Omega_ur(Omega_ur, h, T_cmb) ==
    RDiv(Mul4(Omega_ur, Square(h)) * 10^4, RDiv(omega_of_T4(T_ur_of(T_cmb)) * 7, 8))

\* C11: when Omega_ur, omega_ur or Omega0_ur is supplied instead of N_ur,
\* compile_params returns a mapping whose N_ur is that fraction over the
\* density of one species at T_cmb (4/11)^(1/3), and m_ncdm is not filtered.
C11_N_urFromOmega_ur ==
    \A name \in {"Omega_ur", "omega_ur", "Omega0_ur"} :
        Only(name) =>
            /\ last.st = "ok"
            /\ last.out["N_ur"].n =
                  N_ur_of_Omega_ur(IF name = "omega_ur" THEN DivH2(last.args[name], Pre.p["h"].n).n
                                   ELSE last.args[name].n,
                                   Pre.p["h"].n, Pre.p["T_cmb"].n)
            /\ last.out["m_ncdm"] = Pre.m

\* the state of compile_params at line 830, before the hierarchy is applied
Lists == compile_masses(last.merged)

\* Cosmology(m_ncdm=M, neutrino_hierarchy=hierarchy) with a single sum M >= 0
PairCall(hierarchy) ==
    /\ last.op = "init"
    /\ DOMAIN last.args = {"m_ncdm", "neutrino_hierarchy"}
    /\ last.args["neutrino_hierarchy"] = Str(hierarchy)
    /\ last.args["m_ncdm"].k = "num"
    /\ last.args["m_ncdm"].n >= 0

\* the sum M of the last call
M == last.args["m_ncdm"].n

\* M passes the minimum check of its hierarchy (lines 859 and 867)
MinChecked(hierarchy) ==
    IF hierarchy = "normal" THEN M * M >= deltam21sq + deltam31sq_normal
    ELSE IF hierarchy = "inverted" THEN M * M >= deltam21sq - 2 * deltam31sq_inverted
    ELSE TRUE

\* C12: for each hierarchy and every sum M its minimum check accepts,
\* compiling M with that hierarchy yields an m_ncdm of exactly three masses
\* whose sum is M, within the tolerance of the grid.
C12_ThreeMassesSumToM ==
    \A hierarchy \in {"normal", "inverted", "degenerate"} :
        (PairCall(hierarchy) /\ MinChecked(hierarchy)) =>
            /\ last.st = "ok"
            /\ Len(last.out["m_ncdm"].l) = 3
            /\ ~HasNaN(last.out["m_ncdm"].l)
            /\ Abs(SeqSum(last.out["m_ncdm"].l) - M) <= NewtonTol

\* C13: under the normal hierarchy M = 0.0592 eV compiles, M = 0.05 eV fails
\* as unphysical, and every M below the minimum of about 0.0592 eV is
\* rejected before any Newton iteration.
C13_NormalMinimum ==
    PairCall("normal") =>
        /\ M = 5920 => last.st = "ok"
        /\ M = 5000 => last.st = "ValueError"
        /\ M < 5920 => last.st = "ValueError" /\ last.it = 0

\* C14: under the inverted hierarchy M = 0.0978 eV compiles to three finite
\* masses and M = 0.09 eV fails as unphysical.
C14_InvertedMinimum ==
    PairCall("inverted") =>
        /\ M = 9780 => last.st = "ok" /\ Len(Pre.m.l) = 3 /\ ~HasNaN(Pre.m.l)
        /\ M = 9000 => last.st = "ValueError"

\* the last call reached line 830 with the degenerate hierarchy and a single
\* mass M >= 0 given under m_ncdm
Degenerate ==
    /\ Called /\ ~ConflictError
    /\ Lists.st = "ok"
    /\ Has(Lists.p, "neutrino_hierarchy") /\ Lists.p["neutrino_hierarchy"] = Str("degenerate")
    /\ Has(last.merged, "m_ncdm") /\ last.merged["m_ncdm"].k = "num"
    /\ last.merged["m_ncdm"].n >= 0

\* C15: with the degenerate hierarchy and any sum M >= 0 the three species
\* masses are all M/3 and no Newton iteration is run (every mass returned is
\* M/3); M = 0.06 eV gives three masses of 0.02 eV.
C15_DegenerateThirds ==
    /\ Degenerate =>
          /\ Pre.st = "ok"
          /\ Pre.m.l = Repeat(RDiv(last.merged["m_ncdm"].n, 3), 3)
          /\ last.it = 0
          /\ Returned => \A i \in 1..Len(last.out["m_ncdm"].l) :
                             last.out["m_ncdm"].l[i] = RDiv(last.merged["m_ncdm"].n, 3)
    /\ (PairCall("degenerate") /\ M = 6000) =>
          last.st = "ok" /\ last.out["m_ncdm"].l = <<2000, 2000, 2000>>

\* C15 reached: Cosmology(m_ncdm=0.06, neutrino_hierarchy='degenerate')
C15_Witness ==
    /\ PairCall("degenerate") /\ M = 6000
    /\ last.st = "ok"
    /\ last.out["m_ncdm"].l = <<2000, 2000, 2000>>

\* a hierarchy that is not None reaches compile_params
HierarchyGiven ==
    Has(last.merged, "neutrino_hierarchy") /\ last.merged["neutrino_hierarchy"].k # "none"

\* the masses reach compile_params as a list
ListMass == Has(last.merged, "m_ncdm") /\ last.merged["m_ncdm"].k \in {"list", "array"}

\* the neutrino content reaches compile_params as one number
ScalarContent ==
    IF Has(last.merged, "m_ncdm") THEN last.merged["m_ncdm"].k = "num"
    ELSE \E name \in {"Omega_ncdm", "omega_ncdm", "Omega0_ncdm"} :
             Has(last.merged, name) /\ last.merged[name].k = "num"

\* C16: compile_params fails with an error whenever a hierarchy that is not
\* None comes with masses given as a list, of any length (the error of line
\* 836 if line 830 is reached); a call with a hierarchy returns only when the
\* neutrino content is a single number.
C16_HierarchyNeedsScalar ==
    (Called /\ ~ConflictError /\ HierarchyGiven) =>
        /\ ListMass => /\ last.st \notin {"ok", "hang"}
                       /\ Lists.st = "ok" => last.st = "CosmologyError"
        /\ last.st = "ok" => ScalarContent

\* C16 reached: the list [0.06] of one mass with a hierarchy is refused
C16_Witness ==
    /\ Called
    /\ HierarchyGiven
    /\ Has(last.args, "m_ncdm") /\ last.args["m_ncdm"] = Lst(<<6000>>)
    /\ last.st = "CosmologyError"

\* C17: every call of compile_params terminates: each Newton loop converges
\* or ends with an error, it never runs for ever.
C17_Terminates == Called => last.st # "hang"

\* Cosmology(Omega_ncdm=target) with a single target >= 0
TargetCall ==
    /\ Only("Omega_ncdm") /\ last.op = "init"
    /\ last.args["Omega_ncdm"].k = "num"
    /\ last.args["Omega_ncdm"].n >= 0

\* the density read back by cosmo['Omega_ncdm'] from the mapping returned
ReadBack == get(last.out, "Omega_ncdm", FALSE, NoneV).v.n

\* C18: compiling with a target Omega_ncdm >= 0 and reading Omega_ncdm back
\* from the solved mass gives the target again, within the tolerance of the
\* loop; a target of 0 gives mass 0 without iterating.
C18_Omega_ncdmRoundTrip ==
    TargetCall =>
        /\ last.st = "ok"
        /\ Abs(ReadBack - last.args["Omega_ncdm"].n) <= RDiv(NewtonTol * 10^4, Square(last.out["h"].n)) + 1
        /\ last.args["Omega_ncdm"].n = 0 => last.it = 0 /\ Pre.m.l = <<0>>

\* the last call raised an exception
Failed(call) == call.op \in {"init", "clone"} /\ call.st \notin {"ok", "hang"}

\* C19: when construction or clone fails nothing observable has changed: the
\* cosmologies the program holds (mapping and engine) and the caller's
\* mapping with the lists it holds are as before the call.
C19_FailureChangesNothing ==
    [][Failed(last') => (cosmos' = cosmos /\ last'.after = last'.args)]_vars

\* the names get derives from the stored values
Derivable == {"H0", "Omega_g", "T_ur", "Omega_ur", "Omega_r", "Omega_ncdm", "Omega_m", "N_ncdm", "N_eff"}

\* name has a stored or derivable definition in the mapping p
RECURSIVE Defined(_, _)
Defined(p, name) ==
    \/ Has(p, name)
    \/ name \in Derivable
    \/ name = "ln10^{10}A_s" /\ Has(p, "A_s")
    \/ startswith_omega(name) /\ Defined(p, Capital[name])

\* C20: get(name) raises the unknown-parameter CosmologyError exactly when
\* name has no stored or derivable definition and no default is supplied; with
\* a default an undefined name (a name beginning with 'omega' included)
\* returns the default; every defined name is returned without error.
C20_GetErrors ==
    last.op = "get" =>
        LET defined == Defined(cosmos[last.self].params, last.name)
        IN  /\ last.st = "CosmologyError" <=> (~defined /\ ~last.has_default)
            /\ (~defined /\ last.has_default) => last.st = "ok" /\ last.ret = Num(-1)
            /\ defined => last.st = "ok"

\* C21: compile_params is a pure function of its input: after the call the
\* caller's mapping and every value it holds, a z_pk list in particular, are
\* as they were before.
C21_InputUnchanged == Called => last.after = last.args

\* the mapping Cosmology(**args) compiles for the arguments of the last call
Direct == compile_params(merge_params(get_default_parameters, last.args))

\* the last call was Cosmology().clone(**b) with no engine and no conflict in b
CloneOfDefault ==
    /\ last.op = "clone" /\ last.engine = "" /\ ~ConflictError
    /\ cosmos[last.self].params = compile_params(get_default_parameters).p

\* C22: Cosmology(**a).clone(**b) succeeds exactly when Cosmology(**merge(a, b))
\* succeeds and then has the same h, m_ncdm, T_ncdm and N_ur; stated for the
\* default cosmology (a empty), of which cloning with m_ncdm = 0.06 is to give
\* what constructing with m_ncdm = 0.06 gives.
C22_CloneIsConstruct ==
    CloneOfDefault =>
        /\ last.st = "ok" <=> Direct.st = "ok"
        /\ last.st = "ok" =>
              /\ last.out["h"].n = Direct.p["h"].n
              /\ last.out["m_ncdm"].l = Direct.p["m_ncdm"].l
              /\ last.out["T_ncdm"].l = Direct.p["T_ncdm"].l
              /\ last.out["N_ur"].n = Direct.p["N_ur"].n

\* C23: the value cosmo['Omega_ncdm'] returns is the neutrino density of that
\* cosmology's own h, T_cmb, m_ncdm and T_ncdm, after any reads and clones.
C23_Omega_ncdmIsOwn ==
    (last.op = "get" /\ last.name = "Omega_ncdm" /\ last.st = "ok") =>
        last.ret.n = get_rho_ncdm(cosmos[last.self].params)

=============================================================================
